---- MODULE Spec2Model ----
(***************************************************************************)
(* Model of the per-frame simulation of the Go Flappy Bird clone           *)
(* (src/main.go): Game.reset, Game.spawnPipe and Game.Update.              *)
(*                                                                         *)
(* Number representation.  birdY, birdVelocity are float64 in the source.  *)
(* Every value they take is a multiple of 0.5 (gravity = 0.5, all other    *)
(* constants are integers) and far below 2^52, so float64 arithmetic on    *)
(* them is exact.  The model stores birdY and birdVelocity in HALF PIXELS  *)
(* (model value = 2 * source value).  Pipe x, pipe height, nextPipeSpawn   *)
(* and score only take integer values and are stored in pixels.            *)
(***************************************************************************)
EXTENDS Integers, Sequences, FiniteSets

\* ---- program constants (src/main.go:16-30) ----
screenWidth == 500
screenHeight == 500
birdSize == 20
\* 0.5 px per frame, in half pixels
gravity == 1
\* -6 px per frame, in half pixels
jumpStrength == -12
pipeWidth == 50
pipeGap == 150
pipeSpeed == 2
pipeSpacing == 250

\* ---- bounds of the model ----
\* Spec: Running frames explored per session under arbitrary key input
MaxFrames == 52
\* SpecPilot: a session is followed until this many obstacles were scored
MaxScore == 3
\* SpecGap: frames before the first obstacle reaches the bird in which the
\* keys are already arbitrary
MaxApproach == 22

VARIABLES birdY, birdVelocity, pipes, score, gameOver, started, nextPipeSpawn,
          keySpace, keyR, prevPhase, ages, frames, retired, aim

game == <<birdY, birdVelocity, pipes, score, gameOver, started, nextPipeSpawn>>
vars == <<birdY, birdVelocity, pipes, score, gameOver, started, nextPipeSpawn,
          keySpace, keyR, prevPhase, ages, frames, retired, aim>>

\* birdY, birdVelocity, pipes, score, gameOver, started, nextPipeSpawn are the
\* fields of Game.  keySpace and keyR record what ebiten.IsKeyPressed returned
\* for KeySpace and KeyR in the frame just processed, prevPhase the phase in
\* which that frame began ("Init" before the first frame), and ages[i] counts
\* the Running frames that pipes[i] has been in the slice for (the frame that
\* spawned it included).  frames counts the Running frames of the session and
\* retired the pipes removed from the slice in it.  aim belongs to the
\* player, not to the program: the altitude (in pixels) the player of
\* SpecPilot steers to during a session.

\* ---- phases (the spec's names for the two flags) ----
Phase ==
  IF ~started THEN "NotStarted" ELSE IF gameOver THEN "GameOver" ELSE "Running"

\* ---- Game.reset ----
\* slip: gameOver is not cleared
resetKeepOver ==
  /\ birdY' = 2 * (screenHeight \div 2)
  /\ birdVelocity' = 0
  /\ pipes' = <<>>
  /\ score' = 0
  /\ gameOver' = gameOver
  /\ started' = FALSE
  /\ nextPipeSpawn' = screenWidth

\* slip: the reset session resumes at once
resetResume ==
  /\ birdY' = 2 * (screenHeight \div 2)
  /\ birdVelocity' = 0
  /\ pipes' = <<>>
  /\ score' = 0
  /\ gameOver' = FALSE
  /\ started' = TRUE
  /\ nextPipeSpawn' = screenWidth

\* slip: the score is carried into the next session
resetKeepScore ==
  /\ birdY' = 2 * (screenHeight \div 2)
  /\ birdVelocity' = 0
  /\ pipes' = <<>>
  /\ score' = score
  /\ gameOver' = FALSE
  /\ started' = FALSE
  /\ nextPipeSpawn' = screenWidth

reset ==
  /\ birdY' = 2 * (screenHeight \div 2)
  /\ birdVelocity' = 0
  /\ pipes' = <<>>
  /\ score' = 0
  /\ gameOver' = FALSE
  /\ started' = FALSE
  /\ nextPipeSpawn' = screenWidth

\* ---- Game.spawnPipe ----
\* rng.Intn(n) returns an integer of [0, n)
Intn(n) == 0 .. (n - 1)

\* slip: the margin above the gap is forgotten
topHeightsNoMargin == { r : r \in Intn(screenHeight - pipeGap - birdSize * 2) }

topHeights == { r + birdSize : r \in Intn(screenHeight - pipeGap - birdSize * 2) }

\* the gap offsets the model lets the generator produce
\* (candidates; spawnPipe is given those of them that topHeights contains)
GapSample == {19, 20, 100, 150, 329, 330}

\* slip: the new pipe is put in front of the slice
spawnPipeFront(ps, topHeight) ==
  <<[x |-> screenWidth, height |-> topHeight, passed |-> FALSE]>> \o ps

spawnPipe(ps, topHeight) ==
  Append(ps, [x |-> screenWidth, height |-> topHeight, passed |-> FALSE])

\* ---- Game.Update, the Running frame ----
\* slip: the impulse is added to the velocity
JumpAdd(v, space) == IF space THEN v + jumpStrength ELSE v

\* "Handle bird jump": the velocity before gravity is added
Jump(v, space) == IF space THEN jumpStrength ELSE v

\* slip: gravity is applied twice
FallTwice(v) == v + gravity + gravity

\* "Update bird position": velocity, then position
Fall(v) == v + gravity

Move(y, v) == y + v

\* "Check if the bird hits the ground"
HitGround(y) == y > 2 * (screenHeight - birdSize)

\* slip: the position is left where gravity took it
ClampGroundNone(y) == y

ClampGround(y) == IF HitGround(y) THEN 2 * (screenHeight - birdSize) ELSE y

\* slip: the ceiling is not checked
HitTopNever(y) == FALSE

\* "Check if the bird hits the top" (evaluated after the ground check)
HitTop(y) == y < 0

ClampTop(y) == IF HitTop(y) THEN 0 ELSE y

\* "Spawn new pipes at intervals"
SpawnDue(n) == n <= 0

\* slip: the frame that spawns does not count down
CountdownLate(n) == IF SpawnDue(n) THEN pipeSpacing ELSE n - pipeSpeed

Countdown(n) == (IF SpawnDue(n) THEN pipeSpacing ELSE n) - pipeSpeed

\* slip: the pipe moves by one pixel, not by pipeSpeed
AdvanceSlow(p) == [p EXCEPT !.x = p.x - 1]

\* the loop body: advance, score, collide
Advance(p) == [p EXCEPT !.x = p.x - pipeSpeed]

\* slip: the passed flag is not consulted
ScoresAgain(p) == p.x + pipeWidth < screenWidth \div 2

\* p is the pipe after Advance
Scores(p) == ~p.passed /\ p.x + pipeWidth < screenWidth \div 2

Mark(p) == IF Scores(p) THEN [p EXCEPT !.passed = TRUE] ELSE p

\* slip: only the lower pipe is tested
CollidesBelow(p, y) ==
  /\ screenWidth \div 2 >= p.x /\ screenWidth \div 2 <= p.x + pipeWidth
  /\ y + 2 * birdSize >= 2 * (p.height + pipeGap)

\* p is the pipe after Advance, y the bird's position after clamping
Collides(p, y) ==
  /\ screenWidth \div 2 >= p.x /\ screenWidth \div 2 <= p.x + pipeWidth
  /\ (y <= 2 * p.height \/ y + 2 * birdSize >= 2 * (p.height + pipeGap))

\* slip: nothing is removed
RemoveOffscreenNever(ps) == ps

\* slip: the pipe is removed when its trailing edge reaches the left edge
RemoveOffscreenEarly(ps) ==
  IF Len(ps) > 0 /\ ps[1].x + pipeWidth <= 0 THEN Tail(ps) ELSE ps

\* "Remove pipes that have moved off screen"
RemoveOffscreen(ps) ==
  IF Len(ps) > 0 /\ ps[1].x + pipeWidth < 0 THEN Tail(ps) ELSE ps

RunFrame(space, topHeight) ==
  LET v1 == Fall(Jump(birdVelocity, space))
      y1 == Move(birdY, v1)
      y2 == ClampGround(y1)
      y3 == ClampTop(y2)
      spawned == IF SpawnDue(nextPipeSpawn) THEN spawnPipe(pipes, topHeight) ELSE pipes
      moved == [i \in DOMAIN spawned |-> Advance(spawned[i])]
      gained == Cardinality({i \in DOMAIN moved : Scores(moved[i])})
      hit == \E i \in DOMAIN moved : Collides(moved[i], y3)
      marked == [i \in DOMAIN moved |-> Mark(moved[i])]
  IN  /\ birdVelocity' = v1
      /\ birdY' = y3
      /\ gameOver' = (HitGround(y1) \/ HitTop(y2) \/ hit)
      /\ nextPipeSpawn' = Countdown(nextPipeSpawn)
      /\ score' = score + gained
      /\ pipes' = RemoveOffscreen(marked)
      /\ UNCHANGED started

\* ---- Game.Update ----
\* slip: the frame that starts the session already applies the jump
UpdateJumpsAtStart(space, r, topHeight) ==
  IF ~started
    THEN /\ started' = (IF space THEN TRUE ELSE started)
         /\ birdVelocity' = Jump(birdVelocity, space)
         /\ UNCHANGED <<birdY, pipes, score, gameOver, nextPipeSpawn>>
    ELSE IF gameOver
           THEN IF r THEN reset ELSE UNCHANGED game
           ELSE RunFrame(space, topHeight)

\* slip: the pipes keep scrolling after the game is over
UpdateScrollsOn(space, r, topHeight) ==
  IF ~started
    THEN /\ started' = (IF space THEN TRUE ELSE started)
         /\ UNCHANGED <<birdY, birdVelocity, pipes, score, gameOver, nextPipeSpawn>>
    ELSE IF gameOver
           THEN IF r THEN reset
                ELSE /\ pipes' = [i \in DOMAIN pipes |-> Advance(pipes[i])]
                     /\ UNCHANGED <<birdY, birdVelocity, score, gameOver,
                                    started, nextPipeSpawn>>
           ELSE RunFrame(space, topHeight)

\* space, r: the polled keys; topHeight: what the generator returns if asked
Update(space, r, topHeight) ==
  IF ~started
    THEN /\ started' = (IF space THEN TRUE ELSE started)
         /\ UNCHANGED <<birdY, birdVelocity, pipes, score, gameOver, nextPipeSpawn>>
    ELSE IF gameOver
           THEN IF r THEN reset ELSE UNCHANGED game
           ELSE RunFrame(space, topHeight)

\* ---- bookkeeping of the frame just processed (no program state) ----
\* a pipe that joined the slice starts counting, every pipe counts the frame,
\* and a count leaves with the pipe whose removal shortened the slice
Aged ==
  LET joined == IF SpawnDue(nextPipeSpawn) THEN Append(ages, 0) ELSE ages
      counted == [i \in DOMAIN joined |-> joined[i] + 1]
  IN  IF Len(pipes') < Len(counted) THEN Tail(counted) ELSE counted

\* 1 if the frame calls spawnPipe, else 0
Born == IF SpawnDue(nextPipeSpawn) THEN 1 ELSE 0

Record(space, r) ==
  /\ keySpace' = space
  /\ keyR' = r
  /\ prevPhase' = Phase
  /\ ages' = IF Phase = "Running" THEN Aged
             ELSE IF pipes' = <<>> THEN <<>> ELSE ages
  /\ frames' = IF Phase = "Running" THEN frames + 1
               ELSE IF Phase = "GameOver" /\ ~started' THEN 0 ELSE frames
  /\ retired' = IF Phase = "Running" THEN retired + Len(ages) + Born - Len(pipes')
                ELSE IF Phase = "GameOver" /\ ~started' THEN 0 ELSE retired

\* ---- main: game := &Game{}; game.reset() ----
Init ==
  /\ birdY = 2 * (screenHeight \div 2)
  /\ birdVelocity = 0
  /\ pipes = <<>>
  /\ score = 0
  /\ gameOver = FALSE
  /\ started = FALSE
  /\ nextPipeSpawn = screenWidth
  /\ keySpace = FALSE
  /\ keyR = FALSE
  /\ prevPhase = "Init"
  /\ ages = <<>>
  /\ frames = 0
  /\ retired = 0
  /\ aim = 0

\* ---- Spec: every key input, the first MaxFrames Running frames of a session ----
WithinFrames == nextPipeSpawn > screenWidth - pipeSpeed * MaxFrames

\* the generator is asked only in a Running frame in which a spawn is due
Draws(sample) ==
  IF Phase = "Running" /\ SpawnDue(nextPipeSpawn)
    THEN topHeights \cap sample
    ELSE {birdSize}

Frame ==
  /\ Phase = "Running" => WithinFrames
  /\ \E space \in BOOLEAN, r \in BOOLEAN, topHeight \in Draws(GapSample) :
        Update(space, r, topHeight) /\ Record(space, r)
  /\ UNCHANGED aim

Next == Frame

Spec == Init /\ [][Next]_vars

\* ---- SpecPilot: a player who steers to an altitude ----
\* When starting a session the player picks an altitude and from then on holds
\* Space exactly in the frames that begin with the bird below it.  -1 is above
\* the ceiling (Space is held all the time), screenHeight below the floor
\* (Space is never pressed again).
Aims == {-1, 110, 150, screenHeight}

Below(a) == birdY > 2 * a

PilotFrame ==
  /\ Phase = "Running" => score < MaxScore
  /\ \E a \in Aims, press \in BOOLEAN, r \in BOOLEAN, topHeight \in Draws(GapSample) :
        LET space == IF Phase = "Running" THEN Below(aim) ELSE press
        IN  /\ Update(space, r, topHeight) /\ Record(space, r)
            /\ aim' = IF Phase = "NotStarted" /\ space THEN a ELSE aim

NextPilot == PilotFrame

SpecPilot == Init /\ [][NextPilot]_vars

\* ---- SpecGap: every key input around the first obstacle ----
\* The player cruises below the ceiling until the first obstacle is MaxApproach
\* frames away from the bird's column; from then on the keys are arbitrary.
\* The session is followed until that obstacle has been scored.  The
\* generator produces the gap offset 100, and R is left alone while the bird
\* flies (Update does not poll it then).
Cruise == pipeGap \div 2

GapScenario == {100}

RKeys == IF Phase = "Running" THEN {FALSE} ELSE BOOLEAN

Near ==
  /\ Len(pipes) > 0
  /\ pipes[1].x - screenWidth \div 2 <= pipeSpeed * MaxApproach

GapFrame ==
  /\ Phase = "Running" => score < 1
  /\ \E press \in BOOLEAN, r \in RKeys, topHeight \in Draws(GapScenario) :
        LET space == IF Phase = "Running" /\ ~Near THEN Below(Cruise) ELSE press
        IN  Update(space, r, topHeight) /\ Record(space, r)
  /\ UNCHANGED aim

NextGap == GapFrame

SpecGap == Init /\ [][NextGap]_vars

\* ==== properties ====
center == screenWidth \div 2

\* C1: after every Update, in every phase and under every key input, birdY
\* lies within [0, screenHeight - birdSize] (0 .. 960 half pixels).
C1_BirdWithinField == 0 <= birdY /\ birdY <= 2 * 480

\* the floor clamp has acted: a Running frame ended on the floor, game over
C1_Witness ==
  prevPhase = "Running" /\ gameOver /\ birdY = 2 * 480 /\ birdVelocity > 0

\* a pipe of the new state whose trailing edge is left of the bird's centre
\* in this frame and was not one advance earlier
FirstBehind(p) ==
  /\ p.x + pipeWidth < center
  /\ p.x + pipeSpeed + pipeWidth >= center

\* the step is the reset of a finished session
IsReset == Phase = "GameOver" /\ keyR'

\* C2: within a session the score never decreases, and a frame adds to it
\* exactly the number of obstacles whose trailing edge is left of the centre
\* for the first time in that frame: 1 per obstacle, once in its lifetime,
\* nothing in the frames after it and nothing outside Running frames.
C2_ScoreOncePerPipe ==
  [][ ~IsReset =>
        /\ score' >= score
        /\ Phase = "Running" =>
              score' = score
                + Cardinality({i \in DOMAIN pipes' : FirstBehind(pipes'[i])})
        /\ Phase # "Running" => score' = score ]_vars

\* two obstacles were scored, and the one still in the slice was scored
\* frames ago
C2_Witness ==
  /\ prevPhase = "Running"
  /\ score = 2
  /\ Len(pipes) >= 2
  /\ pipes[1].passed
  /\ pipes[1].x + pipeWidth < center - 10 * pipeSpeed

\* C3: an Update in GameOver with R pressed restores the start-of-session
\* values and lands in NotStarted; a NotStarted frame without Space changes
\* no field, so the session leaves NotStarted only in a frame with Space.
C3_ResetNeedsJump ==
  [][ /\ IsReset =>
            /\ score' = 0
            /\ pipes' = <<>>
            /\ birdY' = 2 * 250
            /\ birdVelocity' = 0
            /\ nextPipeSpawn' = 500
            /\ ~started'
            /\ ~gameOver'
      /\ (Phase = "NotStarted" /\ ~keySpace') => UNCHANGED game
      /\ (Phase = "NotStarted" /\ Phase' # "NotStarted") => keySpace' ]_vars

\* the state a reset left behind after a session that had obstacles and a
\* score, still in NotStarted one or more frames later
C3_Witness ==
  /\ prevPhase = "NotStarted"
  /\ Phase = "NotStarted"
  /\ aim = 150
  /\ score = 0
  /\ pipes = <<>>
  /\ ~keySpace

\* the scenario of C5: the frame just processed was a Running frame and left
\* a pipe with gap offset 100 over the bird's centre column
GapOver100 ==
  /\ prevPhase = "Running"
  /\ \E i \in DOMAIN pipes :
        /\ pipes[i].height = 100
        /\ pipes[i].x <= center /\ center <= pipes[i].x + pipeWidth

\* C5 as stated: with a pipe of gap offset 100 over the centre column, a
\* Running frame that leaves the bird at 50 or at 90 does not end the game,
\* one that leaves it at 5 does.
C5_AsStated ==
  GapOver100 =>
    /\ birdY \in {2 * 50, 2 * 90} => ~gameOver
    /\ birdY = 2 * 5 => gameOver

\* C5 amended: with a pipe of gap offset 100 over the centre column, a
\* Running frame that leaves the bird at 50, at 90 or at 5 sets GameOver (in
\* all three the bird's top edge is above the gap's top at 100).
C5_AboveGapCollides ==
  GapOver100 => (birdY \in {2 * 50, 2 * 90, 2 * 5} => gameOver)

\* the bird was left at 50 under that pipe
C5_Witness == GapOver100 /\ birdY = 2 * 50 /\ gameOver

C5_Reach90 == GapOver100 /\ birdY = 2 * 90 /\ gameOver

C5_Reach5 == GapOver100 /\ birdY = 2 * 5 /\ gameOver

\* C6: in a Running frame, an integrated position (old position plus new
\* velocity) above 480 ends on 480 with GameOver, one below 0 ends on 0 with
\* GameOver; from position 0 with velocity -3 and no jump the velocity becomes
\* -2.5, the position 0 and the phase GameOver; an integrated position of
\* exactly 0 or exactly 480 is kept as it is and, no pipe being in the slice,
\* the session keeps Running.
C6_FloorAndCeiling ==
  [][ Phase = "Running" =>
        LET landed == birdY + birdVelocity'
        IN  /\ landed > 2 * 480 => (birdY' = 2 * 480 /\ Phase' = "GameOver")
            /\ landed < 0 => (birdY' = 0 /\ Phase' = "GameOver")
            /\ (birdY = 0 /\ birdVelocity = -6 /\ ~keySpace') =>
                  (birdVelocity' = -5 /\ birdY' = 0 /\ Phase' = "GameOver")
            /\ (landed \in {0, 2 * 480} /\ pipes' = <<>>) =>
                  (birdY' = landed /\ Phase' = "Running") ]_vars

\* the ceiling ended the session with the velocity of the example
C6_Witness ==
  /\ prevPhase = "Running"
  /\ Phase = "GameOver"
  /\ birdY = 0
  /\ birdVelocity = -5
  /\ ~keySpace

\* the pre-state of the example, and the two exact landings
C6_ReachExample == Phase = "Running" /\ birdY = 0 /\ birdVelocity = -6

C6_ReachOnFloor == Phase = "Running" /\ prevPhase = "Running" /\ birdY = 2 * 480

C6_ReachOnCeiling == Phase = "Running" /\ prevPhase = "Running" /\ birdY = 0

\* C7: in every Running frame the new velocity is jumpStrength + gravity
\* (-5.5) if Space is down in that frame, whatever the velocity was and
\* whether or not Space was down in the frame before, and the old velocity
\* + gravity otherwise; the position before clamping is the old position plus
\* the new velocity.  From position 250, velocity 0, without Space: velocity
\* 0.5, position 250.5.
C7_PhysicsStep ==
  [][ Phase = "Running" =>
        LET landed == birdY + birdVelocity'
        IN  /\ keySpace' => birdVelocity' = -11
            /\ ~keySpace' => birdVelocity' = birdVelocity + 1
            /\ (0 <= landed /\ landed <= 2 * 480) => birdY' = landed
            /\ (birdY = 2 * 250 /\ birdVelocity = 0 /\ ~keySpace') =>
                  (birdVelocity' = 1 /\ birdY' = 501) ]_vars

\* Space was down in two frames in a row, the second from a rising bird
C7_Witness ==
  /\ prevPhase = "Running"
  /\ Phase = "Running"
  /\ keySpace
  /\ birdVelocity = -11
  /\ birdY = 2 * 250 - 22
  /\ nextPipeSpawn = screenWidth - 2 * pipeSpeed

C7_ReachExample ==
  prevPhase = "Running" /\ ~keySpace /\ birdVelocity = 1 /\ birdY = 501

\* C8: a pipe spawned at x = screenWidth is at 500 - 2k after the k Running
\* frames it has been advanced in (the frame that spawned it included), so at
\* exactly 250 after 125 frames, and as long as it has been advanced in at
\* most 125 frames no other pipe has been spawned after it.
C8_PipePosition ==
  /\ Len(ages) = Len(pipes)
  /\ \A i \in DOMAIN pipes :
        /\ pipes[i].x = 500 - 2 * ages[i]
        /\ ages[i] = 125 => pipes[i].x = 250
        /\ ages[i] <= 125 => i = Len(pipes)

\* a pipe has been advanced in exactly 125 frames and is still the newest
C8_Witness ==
  /\ Phase = "Running"
  /\ Len(pipes) = 2
  /\ ages[2] = 125
  /\ pipes[2].x = 250

\* C9: the slice is ordered by x in insertion order: for i < j,
\* pipes[i].x <= pipes[j].x, so pipes[1], the oldest, is the leftmost.
C9_PipesOrdered ==
  \A i \in DOMAIN pipes : \A j \in DOMAIN pipes :
    i < j => pipes[i].x <= pipes[j].x

\* three pipes are in the slice
C9_Witness ==
  /\ Len(pipes) = 3
  /\ pipes[1].x < pipes[2].x
  /\ pipes[2].x < pipes[3].x

\* the phase changes an Update may make
PhaseSteps ==
  { <<"NotStarted", "Running">>, <<"Running", "GameOver">>,
    <<"GameOver", "NotStarted">> }

\* C10: the session starts in NotStarted; an Update keeps the phase or moves
\* it NotStarted -> Running, Running -> GameOver or GameOver -> NotStarted,
\* the last only with R pressed; started = false with gameOver = true is
\* never reached.
C10_PhaseMachine ==
  [][ /\ prevPhase = "Init" => Phase = "NotStarted"
      /\ Phase' # Phase => <<Phase, Phase'>> \in PhaseSteps
      /\ (Phase = "GameOver" /\ Phase' = "NotStarted") => keyR'
      /\ ~(~started /\ gameOver)
      /\ ~(~started' /\ gameOver') ]_vars

\* a session that scored ended on a pipe, not on the floor or the ceiling
C10_Witness ==
  /\ prevPhase = "Running"
  /\ Phase = "GameOver"
  /\ score >= 1
  /\ 0 < birdY /\ birdY < 2 * 480

C10_ReachFloor == prevPhase = "Running" /\ Phase = "GameOver" /\ birdY = 2 * 480

C10_ReachCeiling == prevPhase = "Running" /\ Phase = "GameOver" /\ birdY = 0

C10_ReachReset == prevPhase = "GameOver" /\ Phase = "NotStarted" /\ keyR

\* C11: an Update in NotStarted changes nothing but the started flag: with
\* Space it sets started and leaves birdY, birdVelocity, pipes, score,
\* nextPipeSpawn (and gameOver) as they were; without Space it leaves every
\* field as it was, with R pressed or not.
C11_NotStartedFrame ==
  [][ Phase = "NotStarted" =>
        /\ keySpace' =>
              /\ started'
              /\ UNCHANGED <<birdY, birdVelocity, pipes, score, nextPipeSpawn,
                             gameOver>>
        /\ ~keySpace' => UNCHANGED game ]_vars

\* a session was started with Space and R down together, and nothing moved
C11_Witness ==
  /\ prevPhase = "NotStarted"
  /\ Phase = "Running"
  /\ keySpace /\ keyR
  /\ birdY = 2 * 250
  /\ birdVelocity = 0
  /\ nextPipeSpawn = 500

C11_ReachIdleWithR ==
  prevPhase = "NotStarted" /\ Phase = "NotStarted" /\ ~keySpace /\ keyR

\* C12: an Update in GameOver without R leaves every field of the session
\* as it was, with Space pressed or not: pipes stop moving and the score
\* stops changing.
C12_GameOverFrozen ==
  [][ (Phase = "GameOver" /\ ~keyR') => UNCHANGED game ]_vars

\* a finished session with pipes and a score got a frame with Space
C12_Witness ==
  /\ prevPhase = "GameOver"
  /\ Phase = "GameOver"
  /\ keySpace /\ ~keyR
  /\ Len(pipes) >= 2
  /\ score >= 1

\* the bird's centre column is within the pipe's horizontal span
OverCentre(p) == p.x <= center /\ center <= p.x + pipeWidth

\* C13 as stated: in a Running frame whose physics step hits neither floor
\* nor ceiling, the phase becomes GameOver if and only if some pipe of the
\* advanced slice has the centre column within its span and the bird's top
\* edge is above the gap's top (birdY < gapTop) or its bottom edge below the
\* gap's bottom (birdY + birdSize > gapTop + pipeGap); a bird whose edge
\* exactly touches a gap boundary does not collide.
C13_AsStated ==
  [][ (Phase = "Running" /\ 0 <= birdY + birdVelocity'
                        /\ birdY + birdVelocity' <= 2 * 480) =>
        (gameOver' <=>
           \E i \in DOMAIN pipes' :
              /\ OverCentre(pipes'[i])
              /\ \/ birdY' < 2 * pipes'[i].height
                 \/ birdY' + 2 * birdSize > 2 * (pipes'[i].height + pipeGap)) ]_vars

\* what the code does instead: touching a boundary counts as a collision
C13_Inclusive ==
  [][ (Phase = "Running" /\ 0 <= birdY + birdVelocity'
                        /\ birdY + birdVelocity' <= 2 * 480) =>
        (gameOver' <=>
           \E i \in DOMAIN pipes' :
              /\ OverCentre(pipes'[i])
              /\ \/ birdY' <= 2 * pipes'[i].height
                 \/ birdY' + 2 * birdSize >= 2 * (pipes'[i].height + pipeGap)) ]_vars

\* the bird touches the gap's top, and the gap's bottom, under the pipe
C13_ReachTouchTop ==
  /\ prevPhase = "Running" /\ gameOver
  /\ \E i \in DOMAIN pipes : OverCentre(pipes[i]) /\ birdY = 2 * pipes[i].height

C13_ReachTouchBottom ==
  /\ prevPhase = "Running" /\ gameOver
  /\ \E i \in DOMAIN pipes :
        /\ OverCentre(pipes[i])
        /\ birdY + 2 * birdSize = 2 * (pipes[i].height + pipeGap)

C13_ReachInside ==
  /\ prevPhase = "Running" /\ ~gameOver
  /\ \E i \in DOMAIN pipes : OverCentre(pipes[i])

\* C14: every pipe in the slice has a gap offset within [20, 330], so that
\* its gap [offset, offset + pipeGap] lies within [20, 480]; the offset is
\* set when the pipe is spawned and is the same in every later frame (a pipe
\* of the new slice is the pipe of the old slice that is one frame younger).
C14_GapOffsets ==
  [][ /\ \A i \in DOMAIN pipes' :
            /\ 20 <= pipes'[i].height /\ pipes'[i].height <= 330
            /\ 20 <= pipes'[i].height
            /\ pipes'[i].height + pipeGap <= 480
      /\ \A i \in DOMAIN pipes' : \A j \in DOMAIN pipes :
            (Phase = "Running" /\ ages'[i] = ages[j] + 1) =>
              pipes'[i].height = pipes[j].height
      /\ Phase = "NotStarted" => pipes' = pipes
      /\ (Phase = "GameOver" /\ ~keyR') => pipes' = pipes ]_vars

\* pipes with the smallest and the largest sampled offset, both advanced
\* for many frames
C14_Witness ==
  /\ Len(pipes) = 2
  /\ pipes[1].height = 20
  /\ pipes[2].height = 329
  /\ ages[2] > 100

\* every integer of the field's height is offered to the generator
AnyOffset == 0 .. screenHeight

\* C15 as stated: when a spawn is due, the gap offsets spawnPipe can choose
\* are exactly the integers of [birdSize, screenHeight - pipeGap - birdSize]
\* = 20 .. 330, both ends included.
C15_AsStated ==
  (Phase = "Running" /\ SpawnDue(nextPipeSpawn)) =>
    Draws(AnyOffset) = 20 .. 330

\* what the code does instead: 330 is never chosen
C15_HalfOpen ==
  (Phase = "Running" /\ SpawnDue(nextPipeSpawn)) =>
    Draws(AnyOffset) = 20 .. 329

C15_ReachSpawnDue == Phase = "Running" /\ SpawnDue(nextPipeSpawn) /\ score < MaxScore

\* C16: in every Running frame the first pipe is removed if and only if,
\* after the advance, its trailing edge is left of the left edge
\* (x + pipeWidth < 0); at most one pipe leaves the slice, none but the first
\* does, and the pipes that stay keep their order with the position the
\* advance gave them, their gap offset and their passed flag (set in this
\* frame if the pipe was scored in it).
C16_Removal ==
  [][ Phase = "Running" =>
        LET n == Len(pipes)
            gone == n + Born - Len(pipes')
        IN  /\ gone \in {0, 1}
            /\ gone = 1 <=> (n > 0 /\ pipes[1].x - pipeSpeed + pipeWidth < 0)
            /\ \A i \in 1 .. (n - gone) :
                  /\ pipes'[i].x = pipes[i + gone].x - pipeSpeed
                  /\ pipes'[i].height = pipes[i + gone].height
                  /\ pipes'[i].passed =
                       (pipes[i + gone].passed \/ FirstBehind(pipes'[i])) ]_vars

\* the first pipe of the session has just been removed: the second pipe,
\* scored in this very frame, is now the first, the third follows it
C16_Witness ==
  /\ prevPhase = "Running"
  /\ retired = 1
  /\ Len(pipes) = 2
  /\ ages[1] = 151 /\ ages[2] = 26
  /\ pipes[1].passed /\ ~pipes[2].passed

\* the Running frames, counted from 1, in which a pipe is due: 251, 376, ...
SpawnFrame(f) == f >= 251 /\ (f - 251) % 125 = 0

\* C17: a pipe is spawned exactly in the Running frames 251, 376, 501, ...
\* of a session (a pipe that has been in the slice for one frame is there
\* exactly after such a frame); nextPipeSpawn is never negative after an
\* Update, and two consecutive pipes of the slice are exactly pipeSpacing
\* (250) apart.
C17_SpawnSchedule ==
  [][ /\ Phase = "Running" =>
            ( (Len(pipes') > 0 /\ ages'[Len(pipes')] = 1)
                <=> SpawnFrame(frames') )
      /\ nextPipeSpawn' >= 0
      /\ \A i \in DOMAIN pipes' :
            i < Len(pipes') => pipes'[i + 1].x - pipes'[i].x = 250 ]_vars

\* the second pipe has just been spawned, in Running frame 376
C17_Witness ==
  /\ prevPhase = "Running"
  /\ frames = 376
  /\ Len(pipes) = 2
  /\ ages[2] = 1
  /\ pipes[2].x = 498 /\ pipes[1].x = 248

C17_ReachThird == frames = 501 /\ Len(pipes) = 3 /\ ages[3] = 1

C17_ReachFourth == frames = 626 /\ Len(pipes) = 3 /\ ages[3] = 1 /\ retired = 1

\* C18: after every Update every pipe in the slice has
\* -pipeWidth <= x <= screenWidth - pipeSpeed (-50 <= x <= 498) and the slice
\* holds at most 3 pipes, also after the frame that sets GameOver.
C18_SliceBounds ==
  /\ Len(pipes) <= 3
  /\ \A i \in DOMAIN pipes : -50 <= pipes[i].x /\ pipes[i].x <= 498

\* three pipes, the first with its trailing edge exactly on the left edge
C18_Witness ==
  /\ Len(pipes) = 3
  /\ pipes[1].x = -50
  /\ pipes[3].x = 450

C18_ReachGameOverAfterRemoval ==
  prevPhase = "Running" /\ Phase = "GameOver" /\ retired >= 1 /\ Len(pipes) >= 2

\* C19: after every Update a pipe in the slice has passed = true if and only
\* if its trailing edge is left of the centre (x + pipeWidth < 250); score
\* is the number of pipes removed in the session plus the number of pipes in
\* the slice with passed = true; a pipe with passed = true does not have the
\* centre column within its span.
C19_ScoreAccount ==
  /\ \A i \in DOMAIN pipes :
        /\ pipes[i].passed <=> pipes[i].x + pipeWidth < 250
        /\ pipes[i].passed => ~OverCentre(pipes[i])
  /\ score = retired + Cardinality({i \in DOMAIN pipes : pipes[i].passed})

\* two pipes were removed and a third is scored and still in the slice
C19_Witness ==
  /\ score = 3
  /\ retired = 2
  /\ Len(pipes) = 2
  /\ pipes[1].passed /\ ~pipes[2].passed

C19_ReachAfterReset ==
  prevPhase = "GameOver" /\ Phase = "NotStarted" /\ score = 0 /\ aim = 150

\* C20: in a session in which Space is never down after the frame that
\* started it, the game is over after exactly 30 Running frames, not before:
\* on the floor (birdY = 480), with score 0, no pipe ever spawned and
\* nextPipeSpawn = 440.
C20_FreeFall ==
  (started /\ aim = screenHeight) =>
    /\ frames <= 30
    /\ gameOver <=> frames = 30
    /\ pipes = <<>> /\ retired = 0 /\ score = 0
    /\ nextPipeSpawn = 500 - 2 * frames
    /\ gameOver => (birdY = 2 * 480 /\ nextPipeSpawn = 440)
    /\ ~gameOver => (birdVelocity = frames /\ birdY < 2 * 480)

\* the 30th frame of that session has been processed
C20_Witness ==
  /\ started /\ aim = screenHeight
  /\ prevPhase = "Running"
  /\ Phase = "GameOver"
  /\ frames = 30
  /\ birdY = 2 * 480
  /\ birdVelocity = 30
====
